---- MODULE Spec2Model ----
(***************************************************************************)
(* The progressive-interval reminder engine of web_reminder.py             *)
(* (class ReminderEngine with its HistoryManager), as a state machine.     *)
(*                                                                         *)
(* The engine is driven from three kinds of threads:                       *)
(*   - HTTP handlers /api/start, /api/stop, /api/status, which enter the   *)
(*     engine under self.lock;                                             *)
(*   - the worker thread(s) created by start(), which run _run_loop and    *)
(*     touch the engine's fields WITHOUT the lock (only the stop() call of *)
(*     the completion branch takes it).                                    *)
(* A worker's position in _run_loop is pc[w]; one action is one statement  *)
(* group of the loop, so that the handlers interleave with it as the       *)
(* interpreter lets them.                                                  *)
(***************************************************************************)
EXTENDS Integers, Sequences, FiniteSets, TLC

(***************************************************************************)
(* Bounds of the model.                                                    *)
(***************************************************************************)
\* minutes offered as total_min / as an interval in the session specification
MaxTotalMin == 6
MaxIntervalMin == 2
\* minutes offered as total_min in the specification with restarts and races
MaxRaceTotalMin == 2
\* worker threads that may exist at a time; successful starts per run
MaxWorkers == 2
MaxStarts == 2
\* firings of a run whose URL open raises
MaxFaults == 1
\* seconds a URL open may block its caller, in all, during a session
MaxBlockedSec == 1
\* seconds that may pass between requests to the history API
MaxClockAdvance == 1

(***************************************************************************)
(* Program constants.                                                      *)
(***************************************************************************)
\* cfg.total_min * 60
SecPerMin == 60
\* HistoryManager(max_records=500)
max_records == 500
\* Field(..., min_length=5)
UrlMinLength == 5
\* Python's None in an integer field (last_expected, expected_sec)
None == -1
\* enrich_missing_intervals: r["expected_sec"] = 10 * 60
DefaultExpectedSec == 600

Workers == 1..MaxWorkers

(***************************************************************************)
(* URLs are character sequences, so that startswith() is computed.         *)
(***************************************************************************)
HttpPrefix == <<"h", "t", "t", "p", ":", "/", "/">>
HttpsPrefix == <<"h", "t", "t", "p", "s", ":", "/", "/">>
UrlHttp == HttpPrefix \o <<"a">>
UrlHttps == HttpsPrefix \o <<"a">>
\* "a.com/": long enough for min_length, but no scheme
UrlNoScheme == <<"a", ".", "c", "o", "m", "/">>
\* "http": a proper prefix of the scheme, shorter than min_length
UrlShort == <<"h", "t", "t", "p">>

StartsWith(s, p) == Len(s) >= Len(p) /\ SubSeq(s, 1, Len(p)) = p

\* ReminderConfig.validate_url
validate_url(v) == StartsWith(v, HttpPrefix) \/ StartsWith(v, HttpsPrefix)

\* faulty variant: zero passes the bound
FieldGe0(n) == n >= 0

\* Field(..., gt=0)
FieldGt0(n) == n > 0

\* pydantic's construction of ReminderConfig from the request body
ConfigValid(p) ==
    /\ Len(p.url) >= UrlMinLength
    /\ validate_url(p.url)
    /\ FieldGt0(p.total_min)
    /\ FieldGt0(p.first_min)
    /\ FieldGt0(p.second_min)
    /\ FieldGt0(p.subseq_min)

\* values of chrome_path: a browser webbrowser.get() finds, one it does not
\* find (it raises webbrowser.Error), and a blank text
ChromeFound == <<"c">>
ChromeMissing == <<"x">>
ChromeBlank == <<" ">>

PayloadVia(u, t, f, s, q, c) ==
    [url |-> u, total_min |-> t, first_min |-> f, second_min |-> s, subseq_min |-> q,
     chrome_path |-> c]

\* a body that leaves chrome_path at its default, ""
Payload(u, t, f, s, q) == PayloadVia(u, t, f, s, q, <<>>)

(***************************************************************************)
(* Request bodies offered to /api/start.                                   *)
(***************************************************************************)
\* the bodies pydantic must refuse: one field of a good body broken
BadPayloads ==
    { Payload(UrlNoScheme, 2, 1, 1, 1), Payload(UrlShort, 2, 1, 1, 1),
      Payload(UrlHttp, 0, 1, 1, 1), Payload(UrlHttp, 2, -1, 1, 1),
      Payload(UrlHttp, 2, 1, 0, 1), Payload(UrlHttp, 2, 1, 1, 0) }

\* one session on a fresh engine: every mix of intervals
SessionPayloads ==
    { Payload(UrlHttps, t, f, s, q) :
        t \in 1..MaxTotalMin, f \in 1..MaxIntervalMin,
        s \in 1..MaxIntervalMin, q \in 1..MaxIntervalMin }

\* restarts and races: short sessions
RacePayloads ==
    { Payload(UrlHttp, t, 1, 1, 1) : t \in 1..MaxRaceTotalMin }

\* every body /api/start is offered in the deployed engine
ApiPayloads == RacePayloads \cup BadPayloads

\* one configuration with every kind of chrome_path
OverridePayloads ==
    { PayloadVia(UrlHttps, 4, 1, 2, 1, c) :
        c \in {<<>>, ChromeBlank, ChromeFound, ChromeMissing} }

\* the documented scenario: 20 minutes in all, every interval one minute
ScenarioPayload == Payload(UrlHttps, 20, 1, 1, 1)

\* the shortest session: it completes at its immediate firing
BriefPayload == Payload(UrlHttp, 1, 1, 1, 1)

\* a session polled by /api/status: the first interval of DEFAULTS (5
\* minutes) in a total of 6 minutes
PolledPayload == Payload(UrlHttps, 6, 5, 1, 1)

(***************************************************************************)
(* State.                                                                  *)
(***************************************************************************)
VARIABLES
    \* ReminderEngine fields
    running, elapsed, count, total_sec, intervals, subseq_sec, url,
    chrome_path, browser,
    \* the timer of a desktop front-end: tkinter's pending after() call,
    \* PyQt's active QTimer; the web engine has none
    timer,
    seconds_until_next, pending_wait, status_msg, stop_event, last_expected,
    \* HistoryManager.records, and the list last written to history.json
    records, history_file,
    \* whether the last write of history.json went through
    saved,
    \* the wall clock, in seconds
    now,
    \* worker threads: position in _run_loop, _open_now's local `success`,
    \* and the URL-open call the thread made last: its argument, the opener
    \* it went to, and how it ended
    pc, success, call,
    \* _record_history's local actual_sec, where its statements are taken
    \* one by one
    actual,
    \* self.lock: "free", or the thread inside `with self.lock`
    lock,
    \* the thread serving /api/status: "idle", or "div" between the test of
    \* pending_wait and the division
    spc,
    \* the outcome of the API call made by the last step ("none" after a
    \* worker step), and the "progress" of the snapshot if it was a status()
    \* call that returned one (None otherwise)
    reply, progress,
    \* history of the run: successful starts, URL opens that failed
    started, faults,
    \* history of the session: one-second ticks, the waits armed in order,
    \* whether _schedule_next took its completion branch
    ticks, armed, completed

engine == <<running, elapsed, count, total_sec, intervals, subseq_sec, url,
            chrome_path, browser, timer, seconds_until_next, pending_wait,
            status_msg, stop_event, last_expected>>
threads == <<pc, success, call, actual, lock, spc>>

\* no URL-open call made yet
NoCall == [url |-> <<>>, by |-> "none", result |-> "none"]
session == <<started, faults, armed, completed>>
ghost == <<session, ticks, now>>
store == <<records, history_file, saved>>
vars == <<engine, store, threads, reply, progress, ghost>>

Msg(k, n) == [kind |-> k, n |-> n]

\* ReminderEngine.__init__
InitEngine ==
    /\ running = FALSE
    /\ elapsed = 0
    /\ count = 0
    /\ total_sec = 0
    /\ intervals = <<>>
    /\ subseq_sec = 0
    /\ url = <<>>
    /\ chrome_path = <<>>
    /\ browser = "None"
    /\ timer = "none"
    /\ seconds_until_next = 0
    /\ pending_wait = 0
    /\ status_msg = Msg("idle", 0)
    /\ stop_event = FALSE
    /\ last_expected = None
    /\ pc = [w \in Workers |-> "dead"]
    /\ success = [w \in Workers |-> TRUE]
    /\ call = [w \in Workers |-> NoCall]
    /\ actual = [w \in Workers |-> None]
    /\ lock = "free"
    /\ spc = "idle"
    /\ reply = "none"
    /\ progress = None
    /\ started = 0
    /\ faults = 0
    /\ ticks = 0
    /\ armed = <<>>
    /\ completed = FALSE

\* a record of history.json written by an earlier run, one firing a second
FileRecord(i) ==
    [timestamp |-> i,
     count |-> 1,
     url |-> UrlHttp,
     status |-> "success",
     note |-> <<>>,
     expected_sec |-> None,
     actual_sec |-> IF i = 1 THEN None ELSE 1]

\* history.json holding n records
HistoryFile(n) == [i \in 1..n |-> FileRecord(i)]

\* the sizes of history.json offered to the constructor: none, and around
\* the cap
HistoryFileSizes == {0, max_records - 1, max_records, max_records + 1}

\* HistoryManager.load: data[-self.max_records:]
HistoryLoad(data) ==
    IF Len(data) > max_records
    THEN SubSeq(data, Len(data) - max_records + 1, Len(data))
    ELSE data

\* the engine and a HistoryManager constructed over a history.json of
\* earlier runs, the clock standing just past its newest record
InitStored ==
    /\ InitEngine
    /\ \E n \in HistoryFileSizes :
          /\ history_file = HistoryFile(n)
          /\ records = HistoryLoad(HistoryFile(n))
    /\ saved = TRUE
    /\ now = max_records + 1

\* the engine and a HistoryManager constructed with no history.json on disk
Init ==
    /\ InitEngine
    /\ records = <<>>
    /\ history_file = <<>>
    /\ saved = TRUE
    /\ now = 0


(***************************************************************************)
(* Pure helpers of the engine.                                             *)
(***************************************************************************)
\* Python's seq[i] for a list: 0-based, a negative i counts from the end
PyIndex(seq, i) == IF i >= 0 THEN seq[i + 1] ELSE seq[Len(seq) + i + 1]

\* faulty variants: an off-by-one in the table lookup; the table read at
\* the ordinal of the firing that is waited for
NextWaitStrict(cnt, ivs, sub) == IF cnt < Len(ivs) THEN PyIndex(ivs, cnt - 1) ELSE sub
NextWaitUpcoming(cnt, ivs, sub) == IF cnt + 1 <= Len(ivs) THEN PyIndex(ivs, cnt) ELSE sub

\* _schedule_next: the wait selected after the firing with ordinal cnt
NextWait(cnt, ivs, sub) == IF cnt <= Len(ivs) THEN PyIndex(ivs, cnt - 1) ELSE sub

\* faulty variants: a strict comparison; the time already consumed
\* forgotten; the test made on the time consumed alone, after the fact
CompletesStrict(el, wait, tot) == el + wait > tot
CompletesNoElapsed(el, wait, tot) == wait >= tot
CompletesLate(el, wait, tot) == el >= tot
\* faulty variant: the session ends once the total is exceeded
CompletesOverrun(el, wait, tot) == el > tot

\* _schedule_next: the completion test
Completes(el, wait, tot) == el + wait >= tot

\* int(x) of a quotient a / b with b > 0: truncation toward zero
IntOfQuotient(a, b) == IF a >= 0 THEN a \div b ELSE -((-a) \div b)

\* the whole percentages q for which the double (q / 100) * 100 is just
\* below q: the division is rounded to the nearest double and the product
\* of that double by 100 falls short of the integer
ShortPercents ==
    {29, 57, 58, 113, 114, 115, 116, 201, 203, 205, 207, 226, 228, 230, 232,
     251, 253, 255}

\* status(): int(((pending_wait - seconds_until_next) / pending_wait) * 100)
\* in double arithmetic, for a pending_wait that is not 0.  The double
\* differs from the exact quotient by far less than the distance of a
\* non-integer quotient to the next integer, so int() gives its truncation,
\* except where the exact value is a whole percentage that the double
\* misses from below in magnitude.
ProgressOf(pw, s) ==
    LET d == pw - s
        q == IntOfQuotient(d * 100, pw)
        magnitude == IF q >= 0 THEN q ELSE -q
    IN  IF (d * 100) % pw = 0 /\ magnitude \in ShortPercents
        THEN IF q > 0 THEN q - 1 ELSE q + 1
        ELSE q

\* faulty variant: the cap keeps the oldest records
HistoryAddKeepsOldest(recs, entry) ==
    LET all == Append(recs, entry)
    IN  IF Len(all) > max_records THEN SubSeq(all, 1, max_records) ELSE all

\* HistoryManager._persist when the write raises: open() failed and
\* history.json is as it was, or the file was opened, which empties it, and
\* not written out, and load() reads no record from it
FailedWrites(file) == {file, <<>>}

\* HistoryManager.add: append, keep the newest max_records
HistoryAdd(recs, entry) ==
    LET all == Append(recs, entry)
    IN  IF Len(all) > max_records
        THEN SubSeq(all, Len(all) - max_records + 1, Len(all))
        ELSE all

\* _record_history: the entry of a firing (the expectation text of the
\* configuration is left out)
Entry(ok) ==
    [timestamp |-> now,
     count |-> count,
     url |-> url,
     status |-> IF ok THEN "success" ELSE "failed",
     note |-> <<>>,
     \* self.last_expected if self.last_expected else None
     expected_sec |-> IF last_expected # None /\ last_expected # 0
                      THEN last_expected ELSE None,
     \* the seconds since the newest record, None in an empty history
     actual_sec |-> IF records # <<>>
                    THEN now - records[Len(records)].timestamp ELSE None]

\* str.strip(), for texts whose only whitespace is the blank
RECURSIVE LStrip(_)
LStrip(s) == IF s # <<>> /\ Head(s) = " " THEN LStrip(Tail(s)) ELSE s
RECURSIVE RStrip(_)
RStrip(s) == IF s # <<>> /\ s[Len(s)] = " " THEN RStrip(SubSeq(s, 1, Len(s) - 1)) ELSE s
Strip(s) == RStrip(LStrip(s))

\* faulty variants: the newest record is taken, whatever its timestamp; the
\* first record with the timestamp is taken
FindNewest(recs, ts) == Len(recs)
FindFirst(recs, ts) ==
    LET hits == {i \in 1..Len(recs) : recs[i].timestamp = ts}
    IN  IF hits = {} THEN 0 ELSE CHOOSE i \in hits : \A j \in hits : i <= j

\* update_note_by_timestamp's search: the index of the last record, in
\* insertion order, with the timestamp; 0 where the code returns None
FindByTimestamp(recs, ts) ==
    LET hits == {i \in 1..Len(recs) : recs[i].timestamp = ts}
    IN  IF hits = {} THEN 0 ELSE CHOOSE i \in hits : \A j \in hits : j <= i

\* bodies offered to /api/history/note: the selector (None: no timestamp
\* given; 0: a second no record was written in; the second of the oldest
\* record of history.json; the second the process started in), the text
NoteStamps == {None, 0, 1, max_records + 1}
NoteTexts == {<<"o", "k">>, <<" ", "o", "k", " ">>}

\* faulty variant: the loop starts at _schedule_next, without the firing
FirstStepNoFiring == "sched"

\* the first statement of _run_loop
FirstStep == "open"

\* faulty variant: the exception of the URL open leaves _run_loop
FailedOpenEscapes == "dead"

\* _open_now's `except Exception`, then its `finally`
FailedOpenStep == "record"

\* faulty variant: a chrome_path that is not found makes a browser object
ResolveAlways(path) == IF path # <<>> THEN "chrome" ELSE "None"

\* start(): self.browser, None unless chrome_path is set and
\* webbrowser.get(chrome_path) returns a browser
ResolveBrowser(path) == IF path # <<>> /\ path = ChromeFound THEN "chrome" ELSE "None"

\* _open_now(): self.browser.open when start() resolved a browser,
\* webbrowser.open otherwise
Opener == IF browser # "None" THEN "override" ELSE "default"

\* faulty variant: the call is made with the text of chrome_path
OpenCallOfPath == [url |-> chrome_path, by |-> Opener, result |-> "pending"]

\* _open_now(): the call, with self.url as its one argument
OpenCall == [url |-> url, by |-> Opener, result |-> "pending"]

\* faulty variant: start() without its running test
StartNeverRefused == FALSE

\* faulty variant: start() tests the firing counter with the flag
StartRefusedAfterFiring == running /\ count > 0

\* start(): `if self.running: raise RuntimeError`
StartRefused == running

\* faulty variant: stop() without its early return
StopNeverEarly == FALSE

\* stop(): `if not self.running: return`
StopReturnsEarly == ~running

DeadWorkers == {w \in Workers : pc[w] = "dead"}
LiveWorkers == Workers \ DeadWorkers

(***************************************************************************)
(* /api/start                                                              *)
(***************************************************************************)
\* the body does not make a ReminderConfig: the handler is never entered
StartInvalid(p) ==
    /\ ~ConfigValid(p)
    /\ reply' = "config_error"
    /\ progress' = None
    /\ UNCHANGED <<engine, store, threads, ghost>>

\* engine.start raises RuntimeError, the handler answers 400
StartRejected(p) ==
    /\ lock = "free"
    /\ StartRefused
    /\ ConfigValid(p)
    /\ reply' = "already_running"
    /\ progress' = None
    /\ UNCHANGED <<engine, store, threads, ghost>>

\* engine.start under the lock, to worker.start()
StartOk(p) ==
    /\ lock = "free"
    /\ ~StartRefused
    /\ started < MaxStarts
    /\ DeadWorkers # {}
    /\ ConfigValid(p)
    /\ running' = TRUE
    /\ elapsed' = 0
    /\ count' = 0
    /\ total_sec' = p.total_min * SecPerMin
    /\ intervals' = <<p.first_min * SecPerMin, p.second_min * SecPerMin>>
    /\ subseq_sec' = p.subseq_min * SecPerMin
    /\ url' = p.url
    /\ chrome_path' = Strip(p.chrome_path)
    /\ browser' = ResolveBrowser(Strip(p.chrome_path))
    /\ stop_event' = FALSE
    /\ status_msg' = Msg("running", 0)
    /\ last_expected' = None
    /\ LET w == CHOOSE x \in DeadWorkers : \A y \in DeadWorkers : x <= y
       IN  pc' = [pc EXCEPT ![w] = FirstStep]
    /\ reply' = "started"
    /\ progress' = None
    /\ started' = started + 1
    /\ ticks' = 0
    /\ armed' = <<>>
    /\ completed' = FALSE
    /\ UNCHANGED <<timer, seconds_until_next, pending_wait, store, success, call, actual,
                   lock, spc, faults, now>>

(***************************************************************************)
(* /api/stop                                                               *)
(***************************************************************************)
\* the body of ReminderEngine.stop, inside `with self.lock`
StopBody ==
    IF StopReturnsEarly
    THEN UNCHANGED <<running, stop_event, status_msg>>
    ELSE /\ running' = FALSE
         /\ stop_event' = TRUE
         /\ status_msg' = Msg("stopped", 0)

\* a stop() that also rewinds the session counters
StopRewinds ==
    /\ lock = "free"
    /\ StopBody
    /\ reply' = IF running THEN "stopped" ELSE "stop_noop"
    /\ progress' = None
    /\ count' = 0
    /\ elapsed' = 0
    /\ UNCHANGED <<total_sec, intervals, subseq_sec, url, chrome_path, browser, timer,
                   seconds_until_next, pending_wait, last_expected,
                   store, threads, ghost>>

Stop ==
    /\ lock = "free"
    /\ StopBody
    /\ reply' = IF running THEN "stopped" ELSE "stop_noop"
    /\ progress' = None
    /\ UNCHANGED <<elapsed, count, total_sec, intervals, subseq_sec, url, chrome_path, browser, timer,
                   seconds_until_next, pending_wait, last_expected,
                   store, threads, ghost>>


(***************************************************************************)
(* The worker thread: _run_loop, statement by statement.  No step but      *)
(* CompletionStop takes the lock.                                          *)
(*   open   -> browser -> record -> sched -> (cstop ->) check              *)
(*   check  -> branch | dead                                               *)
(*   branch -> sleep -> check   |   branch -> expire -> open               *)
(***************************************************************************)
Goto(w, where) == pc' = [pc EXCEPT ![w] = where]

\* _open_now to its call of browser.open / webbrowser.open
OpenNow(w) ==
    /\ pc[w] = "open"
    /\ count' = count + 1
    /\ success' = [success EXCEPT ![w] = TRUE]
    /\ call' = [call EXCEPT ![w] = OpenCall]
    /\ Goto(w, "browser")
    /\ reply' = "none"
    /\ progress' = None
    /\ UNCHANGED <<running, elapsed, total_sec, intervals, subseq_sec, url,
                   chrome_path, browser, timer, seconds_until_next, pending_wait,
                   status_msg, stop_event, last_expected, store, actual, lock, spc,
                   session>>

\* the call returns: the sound is handed to a daemon thread of its own,
\* status_msg reports the firing
BrowserReturns(w) ==
    /\ pc[w] = "browser"
    /\ call' = [call EXCEPT ![w].result = "true"]
    /\ status_msg' = Msg("fired", count)
    /\ Goto(w, "record")
    /\ reply' = "none"
    /\ progress' = None
    /\ UNCHANGED <<running, elapsed, count, total_sec, intervals, subseq_sec, url,
                   chrome_path, browser, timer, seconds_until_next, pending_wait,
                   stop_event, last_expected, store, success, actual, lock, spc,
                   session>>

\* the call returns False, the opener's report that no browser took the
\* URL: the value is dropped, the statements after the call are the same
BrowserReturnsFalse(w) ==
    /\ pc[w] = "browser"
    /\ faults < MaxFaults
    /\ faults' = faults + 1
    /\ call' = [call EXCEPT ![w].result = "false"]
    /\ status_msg' = Msg("fired", count)
    /\ Goto(w, "record")
    /\ reply' = "none"
    /\ progress' = None
    /\ UNCHANGED <<running, elapsed, count, total_sec, intervals, subseq_sec, url,
                   chrome_path, browser, timer, seconds_until_next, pending_wait,
                   stop_event, last_expected, store, success, actual, lock, spc,
                   started, armed, completed>>

\* the call raises: the except branch
BrowserRaises(w) ==
    /\ pc[w] = "browser"
    /\ faults < MaxFaults
    /\ faults' = faults + 1
    /\ success' = [success EXCEPT ![w] = FALSE]
    /\ call' = [call EXCEPT ![w].result = "raised"]
    /\ status_msg' = Msg("open_failed", 0)
    /\ Goto(w, FailedOpenStep)
    /\ reply' = "none"
    /\ progress' = None
    /\ UNCHANGED <<running, elapsed, count, total_sec, intervals, subseq_sec, url,
                   chrome_path, browser, timer, seconds_until_next, pending_wait,
                   stop_event, last_expected, store, actual, lock, spc, started, armed,
                   completed>>

\* the call takes a second more: the worker is inside it, the clock runs
BrowserBlocks(w) ==
    /\ pc[w] = "browser"
    /\ now - ticks < MaxBlockedSec
    /\ now' = now + 1
    /\ reply' = "none"
    /\ progress' = None
    /\ UNCHANGED <<engine, store, threads, session, ticks>>

\* faulty variant: _open_now without its `finally`, no record is written
RecordHistorySkipped(w) ==
    /\ pc[w] = "record"
    /\ Goto(w, "sched")
    /\ reply' = "none"
    /\ progress' = None
    /\ UNCHANGED <<engine, store, success, call, actual, lock, spc, session>>

\* _open_now's `finally`: _record_history(success)
RecordHistory(w) ==
    /\ pc[w] = "record"
    /\ records' = HistoryAdd(records, Entry(success[w]))
    /\ history_file' = records'
    /\ saved' = TRUE
    /\ Goto(w, "sched")
    /\ reply' = "none"
    /\ progress' = None
    /\ UNCHANGED <<engine, success, call, actual, lock, spc, session>>

\* the same with a write that fails: _persist swallows the exception
RecordHistoryUnsaved(w) ==
    /\ pc[w] = "record"
    /\ records' = HistoryAdd(records, Entry(success[w]))
    /\ history_file' \in FailedWrites(history_file)
    /\ saved' = FALSE
    /\ Goto(w, "sched")
    /\ reply' = "none"
    /\ progress' = None
    /\ UNCHANGED <<engine, success, call, actual, lock, spc, session>>

\* _record_history statement by statement, for requests that fall between
\* its statements.  `if self.history.records:`
RecordTest(w) ==
    /\ pc[w] = "record"
    /\ actual' = [actual EXCEPT ![w] = None]
    /\ IF records # <<>> THEN Goto(w, "recprev") ELSE Goto(w, "recadd")
    /\ reply' = "none"
    /\ progress' = None
    /\ UNCHANGED <<engine, store, success, call, lock, spc, session>>

\* prev = self.history.records[-1].get("timestamp"), outside the `try`: on
\* a list that was emptied since the test it raises IndexError, which
\* leaves _open_now's `finally` and _run_loop, and ends the thread; else
\* actual_sec is the seconds since that record
RecordPrev(w) ==
    /\ pc[w] = "recprev"
    /\ IF records = <<>>
       THEN Goto(w, "dead") /\ UNCHANGED actual
       ELSE /\ actual' = [actual EXCEPT ![w] = now - records[Len(records)].timestamp]
            /\ Goto(w, "recadd")
    /\ reply' = "none"
    /\ progress' = None
    /\ UNCHANGED <<engine, store, success, call, lock, spc, session>>

\* the entry, and self.history.add(entry)
RecordAdd(w) ==
    /\ pc[w] = "recadd"
    /\ records' = HistoryAdd(records, [Entry(success[w]) EXCEPT !.actual_sec = actual[w]])
    /\ history_file' = records'
    /\ saved' = TRUE
    /\ Goto(w, "sched")
    /\ reply' = "none"
    /\ progress' = None
    /\ UNCHANGED <<engine, success, call, actual, lock, spc, session>>

\* faulty variant: a wait that does not fit is cut to the rest of the total
\* and counted down, completion comes with the firing at the total
ScheduleNextCountsDown(w) ==
    /\ pc[w] = "sched"
    /\ LET wait == NextWait(count, intervals, subseq_sec)
           cut == IF Completes(elapsed, wait, total_sec)
                  THEN total_sec - elapsed ELSE wait
       IN  IF elapsed >= total_sec
           THEN /\ seconds_until_next' = 0
                /\ pending_wait' = 0
                /\ status_msg' = Msg("complete", 0)
                /\ completed' = TRUE
                /\ Goto(w, "cstop")
                /\ UNCHANGED <<last_expected, armed>>
           ELSE /\ pending_wait' = cut
                /\ last_expected' = cut
                /\ seconds_until_next' = cut
                /\ armed' = Append(armed, cut)
                /\ Goto(w, "check")
                /\ UNCHANGED <<status_msg, completed>>
    /\ reply' = "none"
    /\ progress' = None
    /\ UNCHANGED <<running, elapsed, count, total_sec, intervals, subseq_sec, url,
                   chrome_path, browser, timer, stop_event, store, success, call, actual, lock,
                   spc, started, faults>>

\* _schedule_next up to its call of stop() or its return
ScheduleNext(w) ==
    /\ pc[w] = "sched"
    /\ LET wait == NextWait(count, intervals, subseq_sec)
       IN  IF Completes(elapsed, wait, total_sec)
           THEN /\ seconds_until_next' = 0
                /\ pending_wait' = 0
                /\ status_msg' = Msg("complete", 0)
                /\ completed' = TRUE
                /\ Goto(w, "cstop")
                /\ UNCHANGED <<last_expected, armed>>
           ELSE /\ pending_wait' = wait
                /\ last_expected' = wait
                /\ seconds_until_next' = wait
                /\ armed' = Append(armed, wait)
                /\ Goto(w, "check")
                /\ UNCHANGED <<status_msg, completed>>
    /\ reply' = "none"
    /\ progress' = None
    /\ UNCHANGED <<running, elapsed, count, total_sec, intervals, subseq_sec, url, chrome_path, browser, timer,
                   stop_event, store, success, call, actual, lock, spc, started, faults>>

\* the completion branch's self.stop(), then `return`
CompletionStop(w) ==
    /\ pc[w] = "cstop"
    /\ lock = "free"
    /\ StopBody
    /\ Goto(w, "check")
    /\ reply' = "none"
    /\ progress' = None
    /\ UNCHANGED <<elapsed, count, total_sec, intervals, subseq_sec, url, chrome_path, browser, timer,
                   seconds_until_next, pending_wait, last_expected,
                   store, success, call, actual, lock, spc, session>>

\* while self.running and not self.stop_event.is_set()
LoopCheck(w) ==
    /\ pc[w] = "check"
    /\ IF running /\ ~stop_event THEN Goto(w, "branch") ELSE Goto(w, "dead")
    /\ reply' = "none"
    /\ progress' = None
    /\ UNCHANGED <<engine, store, success, call, actual, lock, spc, session>>

\* faulty variant: the last second of a countdown is not slept
BranchEarly(w) ==
    /\ pc[w] = "branch"
    /\ IF seconds_until_next > 1 THEN Goto(w, "sleep") ELSE Goto(w, "expire")
    /\ reply' = "none"
    /\ progress' = None
    /\ UNCHANGED <<engine, store, success, call, actual, lock, spc, session>>

\* if self.seconds_until_next > 0
Branch(w) ==
    /\ pc[w] = "branch"
    /\ IF seconds_until_next > 0 THEN Goto(w, "sleep") ELSE Goto(w, "expire")
    /\ reply' = "none"
    /\ progress' = None
    /\ UNCHANGED <<engine, store, success, call, actual, lock, spc, session>>

\* faulty variant: the second is slept, the countdown is not decremented
SleepStuck(w) ==
    /\ pc[w] = "sleep"
    /\ Goto(w, "check")
    /\ reply' = "none"
    /\ progress' = None
    /\ UNCHANGED <<engine, store, success, call, actual, lock, spc, session>>

\* time.sleep(1); self.seconds_until_next -= 1
Sleep(w) ==
    /\ pc[w] = "sleep"
    /\ seconds_until_next' = seconds_until_next - 1
    /\ Goto(w, "check")
    /\ reply' = "none"
    /\ progress' = None
    /\ UNCHANGED <<running, elapsed, count, total_sec, intervals, subseq_sec, url, chrome_path, browser, timer,
                   pending_wait, status_msg, stop_event, last_expected,
                   store, success, call, actual, lock, spc, started, faults, armed, completed>>

\* faulty variant: the first interval is added at every expiry
ExpireAddsFirst(w) ==
    /\ pc[w] = "expire"
    /\ elapsed' = elapsed + intervals[1]
    /\ Goto(w, "open")
    /\ reply' = "none"
    /\ progress' = None
    /\ UNCHANGED <<running, count, total_sec, intervals, subseq_sec, url, chrome_path, browser, timer,
                   seconds_until_next, pending_wait, status_msg, stop_event,
                   last_expected, store, success, call, actual, lock, spc, session>>

\* self.elapsed += self.pending_wait
Expire(w) ==
    /\ pc[w] = "expire"
    /\ elapsed' = elapsed + pending_wait
    /\ Goto(w, "open")
    /\ reply' = "none"
    /\ progress' = None
    /\ UNCHANGED <<running, count, total_sec, intervals, subseq_sec, url, chrome_path, browser, timer,
                   seconds_until_next, pending_wait, status_msg, stop_event,
                   last_expected, store, success, call, actual, lock, spc, session>>

\* observers of a worker step: where the clock is followed, a one-second
\* sleep advances it, and the ticks since start() with it
CountTicks(w) ==
    IF pc[w] = "sleep"
    THEN ticks' = ticks + 1 /\ now' = now + 1
    ELSE UNCHANGED <<ticks, now>>
NoCount == UNCHANGED <<ticks, now>>

(***************************************************************************)
(* /api/status: ReminderEngine.status, inside `with self.lock`.  The       *)
(* conditional expression of "progress" tests self.pending_wait and then   *)
(* reads it again as the divisor.                                          *)
(***************************************************************************)
\* to the test `if self.pending_wait`; with no wait pending, to the return
StatusBegin ==
    /\ spc = "idle"
    /\ lock = "free"
    /\ IF pending_wait # 0
       THEN /\ spc' = "div"
            /\ lock' = "status"
            /\ reply' = "none"
            /\ progress' = None
       ELSE /\ reply' = "status_ok"
            /\ progress' = 0
            /\ UNCHANGED <<spc, lock>>
    /\ UNCHANGED <<engine, store, pc, success, call, actual, ghost>>

\* (self.pending_wait - self.seconds_until_next) / self.pending_wait
StatusDivide ==
    /\ spc = "div"
    /\ spc' = "idle"
    /\ lock' = "free"
    /\ reply' = IF pending_wait = 0 THEN "status_ZeroDivisionError" ELSE "status_ok"
    /\ progress' = IF pending_wait = 0
                   THEN None
                   ELSE ProgressOf(pending_wait, seconds_until_next)
    /\ UNCHANGED <<engine, store, pc, success, call, actual, ghost>>

(***************************************************************************)
(* /api/history/clear, /api/history/note, and the passing of time between  *)
(* requests.                                                               *)
(***************************************************************************)
\* HistoryManager.enrich_missing_intervals: the list it leaves (every
\* timestamp of the model parses, so prev_dt is the previous record's)
Enrich(recs) ==
    [i \in 1..Len(recs) |->
        [recs[i] EXCEPT
            !.expected_sec = IF @ = None THEN DefaultExpectedSec ELSE @,
            !.actual_sec = IF i > 1 /\ @ = None
                           THEN recs[i].timestamp - recs[i - 1].timestamp
                           ELSE @]]

\* history: GET /api/history reads through enrich_missing_intervals, which
\* persists when it changed a record
GetHistory ==
    /\ records' = Enrich(records)
    /\ history_file' = IF records' # records THEN records' ELSE history_file
    /\ saved' = IF records' # records THEN TRUE ELSE saved
    /\ reply' = "history_ok"
    /\ progress' = None
    /\ UNCHANGED <<engine, threads, ghost>>

\* faulty variant: clear() without its _persist
ClearHistoryInMemory ==
    /\ records' = <<>>
    /\ reply' = "cleared"
    /\ progress' = None
    /\ UNCHANGED <<history_file, saved, engine, threads, ghost>>

\* clear_history: HistoryManager.clear
ClearHistory ==
    /\ records' = <<>>
    /\ history_file' = <<>>
    /\ saved' = TRUE
    /\ reply' = "cleared"
    /\ progress' = None
    /\ UNCHANGED <<engine, threads, ghost>>

\* the same with a write that fails
ClearHistoryUnsaved ==
    /\ records' = <<>>
    /\ history_file' \in FailedWrites(history_file)
    /\ saved' = FALSE
    /\ reply' = "cleared"
    /\ progress' = None
    /\ UNCHANGED <<engine, threads, ghost>>

\* add_note: the handler with HistoryManager.update_note_by_timestamp or
\* update_last_note
AddNote(ts, text) ==
    /\ LET note == Strip(text)
           at == IF ts # None THEN FindByTimestamp(records, ts) ELSE Len(records)
       IN  IF at = 0
           THEN /\ reply' = IF ts # None THEN "note_404" ELSE "note_400"
                /\ UNCHANGED store
           ELSE /\ records' = [records EXCEPT ![at].note = note]
                /\ history_file' = records'
                /\ saved' = TRUE
                /\ reply' = "note_ok"
    /\ progress' = None
    /\ UNCHANGED <<engine, threads, ghost>>

\* the same with a write that fails, for a record that is found
AddNoteUnsaved(ts, text) ==
    /\ LET note == Strip(text)
           at == IF ts # None THEN FindByTimestamp(records, ts) ELSE Len(records)
       IN  /\ at # 0
           /\ records' = [records EXCEPT ![at].note = note]
           /\ history_file' \in FailedWrites(history_file)
           /\ saved' = FALSE
           /\ reply' = "note_ok"
    /\ progress' = None
    /\ UNCHANGED <<engine, threads, ghost>>

\* a second passes
ClockTick ==
    /\ now < max_records + 1 + MaxClockAdvance
    /\ now' = now + 1
    /\ reply' = "none"
    /\ progress' = None
    /\ UNCHANGED <<engine, store, threads, session, ticks>>

(***************************************************************************)
(* The desktop front-ends: ReminderApp (tkinter) and ReminderWindow (PyQt). *)
(* Their handlers run one at a time on the thread of the user interface;   *)
(* they keep fields of the same names as the engine, and a timer.          *)
(***************************************************************************)
\* _record_history_entry / _record_history: the entry of a firing
DesktopEntry(n, u) ==
    [timestamp |-> now, count |-> n, url |-> u, status |-> "success"]

\* _open_now() and _schedule_next() one after the other, for the firing with
\* ordinal n at e elapsed seconds: the record is written; where the next
\* wait does not fit, stop(), the countdown fields are left as they were (pw
\* the pending wait); where it fits, the countdown is armed, less the
\* seconds `taken` off it before the handler returns
DesktopFire(n, e, u, tot, ints, sub, pw, taken) ==
    LET wait == NextWait(n, ints, sub)
    IN  /\ count' = n
        /\ records' = HistoryAdd(records, DesktopEntry(n, u))
        /\ history_file' = records'
        /\ saved' = TRUE
        /\ IF Completes(e, wait, tot)
           THEN /\ running' = FALSE
                /\ status_msg' = Msg("stopped", 0)
                /\ completed' = TRUE
                /\ pending_wait' = pw
                /\ seconds_until_next' = 0
                /\ armed' = IF n = 1 THEN <<>> ELSE armed
           ELSE /\ running' = TRUE
                /\ status_msg' = Msg("fired", n)
                /\ completed' = FALSE
                /\ pending_wait' = wait
                /\ seconds_until_next' = wait - taken
                /\ armed' = IF n = 1 THEN <<wait>> ELSE Append(armed, wait)

\* start() of either front-end: the early return, the validation, the
\* fields, the immediate firing
DesktopStart(p, taken) ==
    /\ ~running
    /\ ConfigValid(p)
    /\ elapsed' = 0
    /\ total_sec' = p.total_min * SecPerMin
    /\ intervals' = <<p.first_min * SecPerMin, p.second_min * SecPerMin>>
    /\ subseq_sec' = p.subseq_min * SecPerMin
    /\ url' = p.url
    /\ chrome_path' = Strip(p.chrome_path)
    /\ browser' = ResolveBrowser(Strip(p.chrome_path))
    /\ DesktopFire(1, 0, p.url, p.total_min * SecPerMin,
                   <<p.first_min * SecPerMin, p.second_min * SecPerMin>>,
                   p.subseq_min * SecPerMin, 0, taken)
    /\ started' = started + 1
    /\ ticks' = 0
    /\ reply' = "none"
    /\ progress' = None
    /\ UNCHANGED <<stop_event, last_expected, threads, faults, now>>

\* ReminderApp.start: after the firing _tick() is called at once; it takes
\* the first second off the countdown and arms after(1000), or returns when
\* the session is complete
TkStart(p) ==
    /\ DesktopStart(p, 1)
    /\ timer' = IF running' THEN "after" ELSE "none"

\* ReminderWindow.start: after the firing, self.timer.start(1000)
QtStart(p) ==
    /\ DesktopStart(p, 0)
    /\ timer' = "qtimer"

\* _tick of either front-end while running: a second off the countdown, or
\* at 0 the wait added to elapsed and the next firing
DesktopTick ==
    /\ IF seconds_until_next > 0
       THEN /\ seconds_until_next' = seconds_until_next - 1
            /\ UNCHANGED <<running, elapsed, count, pending_wait, status_msg,
                           store, armed, completed>>
       ELSE /\ elapsed' = elapsed + pending_wait
            /\ DesktopFire(count + 1, elapsed + pending_wait, url, total_sec,
                           intervals, subseq_sec, pending_wait, 0)
    /\ ticks' = ticks + 1
    /\ now' = now + 1
    /\ reply' = "none"
    /\ progress' = None
    /\ UNCHANGED <<total_sec, intervals, subseq_sec, url, chrome_path, browser,
                   stop_event, last_expected, threads, started, faults>>

\* ReminderApp._tick, called by after(1000): it arms the next call itself
TkTick ==
    /\ timer = "after"
    /\ IF running
       THEN DesktopTick /\ timer' = IF running' THEN "after" ELSE "none"
       ELSE /\ timer' = "none"
            /\ reply' = "none"
            /\ progress' = None
            /\ UNCHANGED <<running, elapsed, count, total_sec, intervals,
                           subseq_sec, url, chrome_path, browser,
                           seconds_until_next, pending_wait, status_msg,
                           stop_event, last_expected, store, threads, ghost>>

\* ReminderWindow._tick, called by the QTimer every 1000 ms until the timer
\* is stopped: stop() in _schedule_next stops it
QtTick ==
    /\ timer = "qtimer"
    /\ IF running
       THEN DesktopTick /\ timer' = IF running' THEN "qtimer" ELSE "none"
       ELSE /\ reply' = "none"
            /\ progress' = None
            /\ UNCHANGED <<engine, store, threads, ghost>>

\* stop() of either front-end: the early return, or the flag, the timer
\* cancelled, the label
DesktopStop ==
    /\ IF running
       THEN /\ running' = FALSE
            /\ timer' = "none"
            /\ status_msg' = Msg("stopped", 0)
       ELSE UNCHANGED <<running, timer, status_msg>>
    /\ reply' = "none"
    /\ progress' = None
    /\ UNCHANGED <<elapsed, count, total_sec, intervals, subseq_sec, url,
                   chrome_path, browser, seconds_until_next, pending_wait,
                   stop_event, last_expected, store, threads, ghost>>

(***************************************************************************)
(* Specifications.                                                         *)
(***************************************************************************)
\* the engine as deployed: any request at any time, a worker per start
Next ==
    \/ \E p \in ApiPayloads : StartInvalid(p)
    \/ \E p \in ApiPayloads : StartRejected(p)
    \/ \E p \in ApiPayloads : StartOk(p)
    \/ Stop
    \/ StatusBegin
    \/ StatusDivide
    \/ \E w \in Workers : OpenNow(w) /\ NoCount
    \/ \E w \in Workers : BrowserReturns(w) /\ NoCount
    \/ \E w \in Workers : RecordHistory(w) /\ NoCount
    \/ \E w \in Workers : ScheduleNext(w) /\ NoCount
    \/ \E w \in Workers : CompletionStop(w) /\ NoCount
    \/ \E w \in Workers : LoopCheck(w) /\ NoCount
    \/ \E w \in Workers : Branch(w) /\ NoCount
    \/ \E w \in Workers : Sleep(w) /\ NoCount
    \/ \E w \in Workers : Expire(w) /\ NoCount

Spec == Init /\ [][Next]_vars

\* one session of a freshly constructed engine, any configuration, with
\* stop() at any moment and a URL open that may raise or return False
NextSession ==
    \/ \E p \in SessionPayloads : started = 0 /\ StartOk(p)
    \/ Stop
    \/ \E w \in Workers : OpenNow(w) /\ CountTicks(w)
    \/ \E w \in Workers : BrowserReturns(w) /\ CountTicks(w)
    \/ \E w \in Workers : BrowserReturnsFalse(w) /\ CountTicks(w)
    \/ \E w \in Workers : BrowserRaises(w) /\ CountTicks(w)
    \/ \E w \in Workers : BrowserBlocks(w)
    \/ \E w \in Workers : RecordHistory(w) /\ CountTicks(w)
    \/ \E w \in Workers : ScheduleNext(w) /\ CountTicks(w)
    \/ \E w \in Workers : CompletionStop(w) /\ CountTicks(w)
    \/ \E w \in Workers : LoopCheck(w) /\ CountTicks(w)
    \/ \E w \in Workers : Branch(w) /\ CountTicks(w)
    \/ \E w \in Workers : Sleep(w) /\ CountTicks(w)
    \/ \E w \in Workers : Expire(w) /\ CountTicks(w)

SpecSession == Init /\ [][NextSession]_vars

\* the session of the documented scenario, with stop() at any moment
NextScenario ==
    \/ started = 0 /\ StartOk(ScenarioPayload)
    \/ Stop
    \/ \E w \in Workers : OpenNow(w) /\ CountTicks(w)
    \/ \E w \in Workers : BrowserReturns(w) /\ CountTicks(w)
    \/ \E w \in Workers : RecordHistory(w) /\ CountTicks(w)
    \/ \E w \in Workers : ScheduleNext(w) /\ CountTicks(w)
    \/ \E w \in Workers : CompletionStop(w) /\ CountTicks(w)
    \/ \E w \in Workers : LoopCheck(w) /\ CountTicks(w)
    \/ \E w \in Workers : Branch(w) /\ CountTicks(w)
    \/ \E w \in Workers : Sleep(w) /\ CountTicks(w)
    \/ \E w \in Workers : Expire(w) /\ CountTicks(w)

SpecScenario == Init /\ [][NextScenario]_vars

\* one session of a fresh engine, polled through /api/status at any moment
NextPolled ==
    \/ started = 0 /\ StartOk(PolledPayload)
    \/ Stop
    \/ StatusBegin
    \/ StatusDivide
    \/ \E w \in Workers : OpenNow(w) /\ NoCount
    \/ \E w \in Workers : BrowserReturns(w) /\ NoCount
    \/ \E w \in Workers : RecordHistory(w) /\ NoCount
    \/ \E w \in Workers : ScheduleNext(w) /\ NoCount
    \/ \E w \in Workers : CompletionStop(w) /\ NoCount
    \/ \E w \in Workers : LoopCheck(w) /\ NoCount
    \/ \E w \in Workers : Branch(w) /\ NoCount
    \/ \E w \in Workers : Sleep(w) /\ NoCount
    \/ \E w \in Workers : Expire(w) /\ NoCount

SpecPolled == Init /\ [][NextPolled]_vars

\* the history store over a history.json of earlier runs: brief sessions
\* one after the other, each adding a record, with notes, reads and clears
\* at any moment
NextStored ==
    \/ LiveWorkers = {} /\ StartOk(BriefPayload)
    \/ ClearHistory
    \/ GetHistory
    \/ \E ts \in NoteStamps, text \in NoteTexts : AddNote(ts, text)
    \/ ClockTick
    \/ \E w \in Workers : OpenNow(w) /\ NoCount
    \/ \E w \in Workers : BrowserReturns(w) /\ NoCount
    \/ \E w \in Workers : RecordHistory(w) /\ NoCount
    \/ \E w \in Workers : ScheduleNext(w) /\ NoCount
    \/ \E w \in Workers : CompletionStop(w) /\ NoCount
    \/ \E w \in Workers : LoopCheck(w) /\ NoCount

SpecStored == InitStored /\ [][NextStored]_vars

\* one session that nobody stops; its worker thread is scheduled again and
\* again, its sleeps and its browser calls return
NextUnstopped ==
    \/ \E p \in SessionPayloads : started = 0 /\ StartOk(p)
    \/ \E w \in Workers : OpenNow(w) /\ NoCount
    \/ \E w \in Workers : BrowserReturns(w) /\ NoCount
    \/ \E w \in Workers : BrowserRaises(w) /\ NoCount
    \/ \E w \in Workers : RecordHistory(w) /\ NoCount
    \/ \E w \in Workers : ScheduleNext(w) /\ NoCount
    \/ \E w \in Workers : CompletionStop(w) /\ NoCount
    \/ \E w \in Workers : LoopCheck(w) /\ NoCount
    \/ \E w \in Workers : Branch(w) /\ NoCount
    \/ \E w \in Workers : Sleep(w) /\ NoCount
    \/ \E w \in Workers : Expire(w) /\ NoCount

\* start() calls that nobody follows with a stop(): calls issued together on
\* the engine as constructed wait for the lock, each takes it at a moment of
\* its own, the worker of the first runs in between
NextTwoStarts ==
    \/ \E p \in RacePayloads : StartOk(p)
    \/ \E p \in RacePayloads : StartRejected(p)
    \/ \E w \in Workers : OpenNow(w) /\ NoCount
    \/ \E w \in Workers : BrowserReturns(w) /\ NoCount
    \/ \E w \in Workers : RecordHistory(w) /\ NoCount
    \/ \E w \in Workers : ScheduleNext(w) /\ NoCount
    \/ \E w \in Workers : CompletionStop(w) /\ NoCount
    \/ \E w \in Workers : LoopCheck(w) /\ NoCount
    \/ \E w \in Workers : Branch(w) /\ NoCount
    \/ \E w \in Workers : Sleep(w) /\ NoCount
    \/ \E w \in Workers : Expire(w) /\ NoCount

SpecTwoStarts == Init /\ [][NextTwoStarts]_vars

\* one session with or without a browser of the user's choice, with stop()
\* at any moment and URL opens that may fail
NextOverride ==
    \/ \E p \in OverridePayloads : started = 0 /\ StartOk(p)
    \/ Stop
    \/ \E w \in Workers : OpenNow(w) /\ CountTicks(w)
    \/ \E w \in Workers : BrowserReturns(w) /\ CountTicks(w)
    \/ \E w \in Workers : BrowserReturnsFalse(w) /\ CountTicks(w)
    \/ \E w \in Workers : BrowserRaises(w) /\ CountTicks(w)
    \/ \E w \in Workers : RecordHistory(w) /\ CountTicks(w)
    \/ \E w \in Workers : ScheduleNext(w) /\ CountTicks(w)
    \/ \E w \in Workers : CompletionStop(w) /\ CountTicks(w)
    \/ \E w \in Workers : LoopCheck(w) /\ CountTicks(w)
    \/ \E w \in Workers : Branch(w) /\ CountTicks(w)
    \/ \E w \in Workers : Sleep(w) /\ CountTicks(w)
    \/ \E w \in Workers : Expire(w) /\ CountTicks(w)

SpecOverride == Init /\ [][NextOverride]_vars

\* the history store on a disk that may refuse a write: brief sessions one
\* after the other, notes and clears, every write of history.json going
\* through or failing
NextDisk ==
    \/ LiveWorkers = {} /\ StartOk(BriefPayload)
    \/ ClearHistory
    \/ ClearHistoryUnsaved
    \/ \E ts \in NoteStamps, text \in NoteTexts : AddNote(ts, text)
    \/ \E ts \in NoteStamps, text \in NoteTexts : AddNoteUnsaved(ts, text)
    \/ \E w \in Workers : OpenNow(w) /\ NoCount
    \/ \E w \in Workers : BrowserReturns(w) /\ NoCount
    \/ \E w \in Workers : RecordHistory(w) /\ NoCount
    \/ \E w \in Workers : RecordHistoryUnsaved(w) /\ NoCount
    \/ \E w \in Workers : ScheduleNext(w) /\ NoCount
    \/ \E w \in Workers : CompletionStop(w) /\ NoCount
    \/ \E w \in Workers : LoopCheck(w) /\ NoCount

SpecDisk == InitStored /\ [][NextDisk]_vars

\* a session of a desktop front-end, tkinter or PyQt, with stop() at any
\* moment; the timer ticks are counted
NextDesktop ==
    \/ \E p \in SessionPayloads : started = 0 /\ TkStart(p)
    \/ \E p \in SessionPayloads : started = 0 /\ QtStart(p)
    \/ TkTick
    \/ QtTick
    \/ DesktopStop

SpecDesktop == Init /\ [][NextDesktop]_vars

\* one session with the history cleared at any moment, _record_history
\* taken statement by statement
NextCleared ==
    \/ \E p \in RacePayloads : started = 0 /\ StartOk(p)
    \/ ClearHistory
    \/ \E w \in Workers : OpenNow(w) /\ NoCount
    \/ \E w \in Workers : BrowserReturns(w) /\ NoCount
    \/ \E w \in Workers : RecordTest(w) /\ NoCount
    \/ \E w \in Workers : RecordPrev(w) /\ NoCount
    \/ \E w \in Workers : RecordAdd(w) /\ NoCount
    \/ \E w \in Workers : ScheduleNext(w) /\ NoCount
    \/ \E w \in Workers : CompletionStop(w) /\ NoCount
    \/ \E w \in Workers : LoopCheck(w) /\ NoCount
    \/ \E w \in Workers : Branch(w) /\ NoCount
    \/ \E w \in Workers : Sleep(w) /\ NoCount
    \/ \E w \in Workers : Expire(w) /\ NoCount

SpecCleared == Init /\ [][NextCleared]_vars

\* the next statement of worker w
WorkerStep(w) ==
    \/ OpenNow(w) \/ BrowserReturns(w) \/ RecordHistory(w) \/ ScheduleNext(w)
    \/ CompletionStop(w) \/ LoopCheck(w) \/ Branch(w) \/ Sleep(w) \/ Expire(w)

SpecUnstopped ==
    /\ Init
    /\ [][NextUnstopped]_vars
    /\ \A w \in Workers : WF_vars(WorkerStep(w) /\ NoCount)


(***************************************************************************)
(* Properties.                                                             *)
(***************************************************************************)
\* what the specification says of the wait that follows the firing with
\* ordinal k, written from its interval rule
RuleWait(k) == IF k = 1 THEN intervals[1] ELSE IF k = 2 THEN intervals[2] ELSE subseq_sec

\* positions of a worker: in a countdown, and past a firing's history write
Counting == {"check", "branch", "sleep", "expire"}
AfterFiring == {"sched", "cstop"} \cup Counting \cup {"dead"}

\* C1: a successful start fires exactly once before any tick is processed
\* (the session's worker is thread 1): before the firing fire_count is 0 and
\* nothing is written; from the firing's history write until the first tick
\* fire_count is 1 and the history holds exactly one record, of ordinal 1;
\* no tick is ever processed before that firing; and if first_interval <
\* total and nobody stopped the engine, it is left running with the first
\* countdown armed.
StartFiresOnce ==
    started > 0 =>
        /\ pc[1] = "open" /\ ticks = 0 => count = 0 /\ records = <<>>
        /\ pc[1] \in AfterFiring /\ ticks = 0 =>
              /\ count = 1
              /\ Len(records) = 1
              /\ records[1].count = 1
        /\ ticks > 0 => count >= 1 /\ Len(records) >= 1
        /\ pc[1] \in Counting /\ ticks = 0 /\ intervals[1] < total_sec /\ ~stop_event =>
              /\ running
              /\ pending_wait = intervals[1]
              /\ seconds_until_next = intervals[1]

\* C1 witness: the immediate firing is done, no tick yet, first countdown armed
StartFiresOnceSeen ==
    /\ pc[1] = "check"
    /\ ticks = 0
    /\ running
    /\ count = 1
    /\ Len(records) = 1
    /\ seconds_until_next = intervals[1]
    /\ intervals[1] < total_sec


\* C2: the k-th wait armed in a session is first_interval for k = 1,
\* second_interval for k = 2 and subsequent_interval for every k >= 3.
IntervalSequence ==
    \A k \in 1..Len(armed) : armed[k] = RuleWait(k)

\* C2 witness: four waits armed, with second_interval different from both
\* first_interval and subsequent_interval
IntervalSequenceSeen ==
    /\ Len(armed) >= 4
    /\ intervals[1] # intervals[2]
    /\ intervals[2] # subseq_sec

\* C3: when the wait selected after a firing reaches total_seconds
\* (elapsed + wait >= total), no countdown is armed for it (both countdown
\* fields are 0), running is false once the branch's stop() has run, and
\* no further firing is made: fire_count stays one more than the number of
\* waits armed and the worker only leaves the loop.  Conversely a countdown
\* is armed only for a wait that does not reach total_seconds.
CompletionRule ==
    /\ completed =>
          /\ elapsed + RuleWait(count) >= total_sec
          /\ pending_wait = 0
          /\ seconds_until_next = 0
          /\ count = Len(armed) + 1
          /\ pc[1] \in {"cstop", "check", "dead"}
          /\ pc[1] # "cstop" => ~running
    /\ started > 0 /\ ~completed /\ pc[1] \in {"check", "branch", "sleep"} =>
          /\ elapsed + RuleWait(count) < total_sec
          /\ pending_wait = RuleWait(count)

\* C3 witness: a session that completed after its third firing, worker gone
CompletionRuleSeen ==
    /\ completed
    /\ ~running
    /\ count >= 3
    /\ pc[1] = "dead"
    /\ elapsed + subseq_sec >= total_sec

\* C4: elapsed_seconds never exceeds total_seconds; it is strictly below
\* total_seconds whenever a firing is made, and elapsed + pending_wait is
\* strictly below total_seconds while a countdown is armed.
ElapsedBounded ==
    /\ elapsed <= total_sec
    /\ pc[1] \in {"open", "record"} => elapsed < total_sec
    /\ pc[1] \in {"branch", "sleep", "expire"} => elapsed + pending_wait < total_sec

\* C4 witness: the last firing of a long session, one interval before the end
ElapsedBoundedSeen ==
    /\ pc[1] = "record"
    /\ count >= 4
    /\ elapsed + subseq_sec = total_sec


\* C5: once stop() has returned (running is false and stays false, no start
\* in between) no firing happens: fire_count does not increase and no
\* history record is appended.
NoFiringOnceStopped ==
    [][~running /\ ~running' => count' = count /\ records' = records]_vars

\* C6: at most one worker is inside the timer loop of an engine: no two
\* threads are past the loop condition, counting down on the same fields.
SingleTimerLoop ==
    Cardinality({w \in Workers : pc[w] \in {"branch", "sleep", "expire"}}) <= 1

\* C7: status() never raises: no call ends in a ZeroDivisionError.
StatusNeverRaises ==
    reply # "status_ZeroDivisionError"

\* C8: stop() on a running engine sets running to false; stop() on an engine
\* that is not running (idle, stopped or completed) changes no field of the
\* engine, no record, no thread.
StopIdempotent ==
    [][reply' \in {"stopped", "stop_noop"} =>
          IF running
          THEN reply' = "stopped" /\ ~running'
          ELSE reply' = "stop_noop" /\ UNCHANGED <<engine, records, threads, ghost>>]_vars

\* C8 witness: a stop() that found a completed session already stopped
StopIdempotentSeen ==
    /\ reply = "stop_noop"
    /\ completed
    /\ ~running
    /\ count >= 2

ConfigErrorKeepsState ==
    /\ [](started > 0 =>
            /\ StartsWith(url, HttpPrefix) \/ StartsWith(url, HttpsPrefix)
            /\ total_sec > 0
            /\ intervals[1] > 0
            /\ intervals[2] > 0
            /\ subseq_sec > 0)
    /\ [][reply' = "config_error" =>
            UNCHANGED <<engine, records, threads, ghost>>]_vars

\* C10 witness: a refused body on an engine that is not running, after a
\* session that left records
ConfigErrorKeepsStateSeen ==
    /\ reply = "config_error"
    /\ ~running
    /\ Len(records) >= 1

\* C11: a URL open that raises is handled inside the firing: fire_count was
\* incremented before the call, the firing's history record is written
\* with status failed (success otherwise), the worker leaves the loop only
\* when the engine is no longer running, the wait armed after the failed
\* firing is the one the interval table gives for that ordinal and stays
\* below total_seconds, and every firing, before or after the failure, is
\* made when the ticks counted since start equal elapsed_seconds.
FailedOpenHandled ==
    /\ pc[1] = "record" => count = Len(records) + 1
    /\ started > 0 /\ pc[1] \in AfterFiring =>
          /\ Len(records) = count
          /\ records[count].status = IF success[1] THEN "success" ELSE "failed"
    /\ ~success[1] /\ pc[1] = "dead" => ~running
    /\ ~success[1] /\ ~completed /\ pc[1] \in {"check", "branch", "sleep"} =>
          /\ pending_wait = RuleWait(count)
          /\ elapsed + pending_wait < total_sec
    /\ pc[1] \in {"open", "browser", "record", "sched"} => ticks = elapsed

\* C11 witness: the second firing failed, the third was made a full
\* second_interval of ticks later
FailedOpenHandledSeen ==
    /\ Len(records) >= 3
    /\ records[2].status = "failed"
    /\ records[3].status = "success"
    /\ records[3].expected_sec = intervals[2]
    /\ pc[1] = "sched"
    /\ ticks = intervals[1] + intervals[2]

\* C12: in the scenario total = 20 min, first = second = subsequent = 1 min,
\* the k-th firing is made at elapsed 60 * (k - 1) seconds, after as many
\* ticks; there are never more than 20 firings and elapsed never passes
\* 1140 s, so nothing is fired at 1200 s; after the 20th firing no countdown
\* is armed, the session completes, at elapsed 1140 s.
ScenarioSchedule ==
    /\ pc[1] \in {"browser", "record", "sched"} =>
          /\ elapsed = 60 * (count - 1)
          /\ ticks = elapsed
    /\ count <= 20
    /\ elapsed <= 1140
    /\ ticks <= 1140
    /\ completed => count = 20 /\ elapsed = 1140
    /\ count = 20 /\ pc[1] \in {"cstop", "dead"} \cup Counting => completed

\* C12 witness: the unstopped scenario at its end: 20 records, the last
\* one written 1140 s after the first, the worker gone
ScenarioScheduleSeen ==
    /\ completed
    /\ ~running
    /\ pc[1] = "dead"
    /\ Len(records) = 20
    /\ records[20].timestamp - records[1].timestamp = 1140
    /\ records[3].timestamp = 120

\* C13, as stated: while the engine waits for the firing with ordinal n
\* (n = fire_count + 1, the immediate firing being ordinal 1), the wait
\* counted down is wait(n): second_interval before firing 2, and
\* subsequent_interval before every later firing.
WaitByUpcomingOrdinal ==
    started > 0 /\ ~completed /\ pc[1] \in Counting =>
        pending_wait = RuleWait(count + 1)

\* C13, amended: while the engine waits for the firing with ordinal n + 1,
\* the wait counted down is wait(n), selected by the ordinal n of the
\* firing just made: first_interval before firing 2, second_interval
\* before firing 3, subsequent_interval before every later firing.
WaitByFiredOrdinal ==
    started > 0 /\ ~completed /\ pc[1] \in Counting =>
        /\ count >= 1
        /\ pending_wait = RuleWait(count)
        /\ last_expected = RuleWait(count)

\* C13 witness: waiting for firing 3 on second_interval, which differs from
\* both other intervals
WaitByFiredOrdinalSeen ==
    /\ pc[1] = "sleep"
    /\ running
    /\ count = 2
    /\ pending_wait = intervals[2]
    /\ intervals[2] # intervals[1]
    /\ intervals[2] # subseq_sec

\* C14: once a session has ended by the completion rule (the completion
\* branch has made its stop() call), running is false and status_message
\* reports the completion, not an explicit stop.
CompletionReported ==
    completed /\ pc[1] \in {"check", "dead"} =>
        /\ ~running
        /\ status_msg = Msg("complete", 0)

\* C15: a started session that is never stopped ends by completion: under
\* a fair scheduling of its worker, every state of a started session leads
\* to one where the completion branch was taken, running is false and the
\* worker has left the loop.
EventuallyCompletes ==
    started > 0 ~> (completed /\ ~running /\ pc[1] = "dead")

\* C15 witness: an unstopped session of 6 minutes completed after four
\* firings, one of which failed
EventuallyCompletesSeen ==
    /\ completed
    /\ ~running
    /\ pc[1] = "dead"
    /\ count = 4
    /\ faults = 1
    /\ total_sec = 6 * SecPerMin

\* C16: the engine becomes running only by a successful start(); that
\* start() leaves fire_count and elapsed_seconds at 0; and the new session
\* begins afresh wherever the previous one ended: until its first
\* scheduling step at most the immediate firing (ordinal 1) has been made
\* and no time has been consumed, and the first wait it arms is
\* first_interval.
RestartIsFresh ==
    /\ [](started > 0 /\ armed = <<>> /\ ~completed => count <= 1 /\ elapsed = 0)
    /\ [](Len(armed) >= 1 => armed[1] = intervals[1])
    /\ [][~running /\ running' =>
            reply' = "started" /\ count' = 0 /\ elapsed' = 0]_vars

\* C17: a URL open that is slow to return does not delay the countdown:
\* every second that has passed since start() was counted as a tick of the
\* loop, and each firing is made when the clock stands at elapsed_seconds.
SlowOpenKeepsCadence ==
    /\ now = ticks
    /\ pc[1] = "open" => now = elapsed

\* C18: the progress of every snapshot returned by status() is 0 when no
\* wait is pending, and otherwise the floor of (pending_wait - next_in) *
\* 100 / pending_wait for the values of that snapshot, within 0..100.
ProgressIsFloor ==
    reply = "status_ok" =>
        /\ pending_wait = 0 => progress = 0
        /\ pending_wait # 0 =>
              progress = ((pending_wait - seconds_until_next) * 100) \div pending_wait
        /\ progress \in 0..100

\* C19: the history never holds more than max_records records, whatever
\* was loaded, added, cleared or annotated; and an add made on a history of
\* exactly max_records records removes the oldest record only: the others
\* move up one place in their order and the new record, of the firing just
\* made, is last.
HistoryCapped ==
    /\ [](Len(records) <= max_records)
    /\ [][Len(records) = max_records
            /\ (\E w \in Workers : pc[w] = "record" /\ pc'[w] = "sched") =>
          /\ Len(records') = max_records
          /\ \A i \in 1..(max_records - 1) : records'[i] = records[i + 1]
          /\ records'[max_records].timestamp = now
          /\ records'[max_records].count = count]_vars

\* C19 witness: a full history after two adds: its two oldest records are
\* gone, its newest is a record of this run
HistoryCappedSeen ==
    /\ Len(records) = max_records
    /\ Len(history_file) = max_records
    /\ records[1].timestamp = 3
    /\ records[max_records].timestamp >= max_records + 1
    /\ records[max_records - 1].timestamp >= max_records + 1

\* C20: a note sent with a timestamp that no record carries is answered
\* with the not-found error, and the step so answered changes neither the
\* records, nor their order, nor the content of history.json.
NoteNotFoundKeepsHistory ==
    /\ [][\A ts \in NoteStamps \ {None}, text \in NoteTexts :
            AddNote(ts, text) /\ (\A i \in 1..Len(records) : records[i].timestamp # ts)
               => reply' = "note_404"]_vars
    /\ [][reply' = "note_404" => UNCHANGED <<records, history_file, engine>>]_vars

\* C20 witness: not found in a full history whose newest record carries a
\* note
NoteNotFoundKeepsHistorySeen ==
    /\ reply = "note_404"
    /\ Len(records) = max_records
    /\ records[max_records].note = <<"o", "k">>

\* C21: a note request rewrites the note of exactly one record: with a
\* timestamp, the last record in insertion order that carries it; without
\* one, the last record of the list.  The list keeps its length, every
\* other record and every other field of the record is as before, and the
\* list is persisted.  With no such record (no match, or no timestamp on an
\* empty list) the request is refused and nothing changes.
NoteRewritesOneRecord ==
    [][\A ts \in NoteStamps, text \in NoteTexts :
          AddNote(ts, text) =>
             LET hits == {i \in 1..Len(records) : records[i].timestamp = ts}
                 target == IF ts = None THEN Len(records)
                           ELSE IF hits = {} THEN 0
                           ELSE CHOOSE i \in hits : \A j \in hits : j <= i
             IN  IF target = 0
                 THEN /\ reply' = IF ts = None THEN "note_400" ELSE "note_404"
                      /\ UNCHANGED <<records, history_file>>
                 ELSE /\ reply' = "note_ok"
                      /\ Len(records') = Len(records)
                      /\ \A i \in 1..Len(records) : i # target => records'[i] = records[i]
                      /\ records'[target].note = <<"o", "k">>
                      /\ \A f \in DOMAIN records[target] \ {"note"} :
                            records'[target][f] = records[target][f]
                      /\ history_file' = records']_vars

\* C21 witness: of two records written in the same second, the later one
\* carries the note and the earlier one does not
NoteRewritesOneRecordSeen ==
    /\ reply = "note_ok"
    /\ Len(records) >= 2
    /\ records[Len(records)].timestamp = records[Len(records) - 1].timestamp
    /\ records[Len(records)].timestamp = max_records + 1
    /\ records[Len(records)].note = <<"o", "k">>
    /\ records[Len(records) - 1].note = <<>>

\* C22: a record, once appended, keeps every field but its note: at every
\* step the records that stay in the list (all of them, or all but the
\* oldest when an add on a full list dropped it; none after a clear) have
\* the timestamp, count, url, status, expected_sec and actual_sec they had.
RecordsImmutable ==
    [][records' # <<>> =>
         \E k \in {0, 1} :
            /\ Len(records') >= Len(records) - k
            /\ \A i \in (1 + k)..Len(records) :
                  \A f \in DOMAIN records[i] \ {"note"} :
                     records'[i - k][f] = records[i][f]]_vars

(***************************************************************************)
(* URL-open calls                                                          *)
(***************************************************************************)

\* the worker w makes a URL-open call in this step
MakesCall(w) == call'[w] # call[w] /\ call'[w].result = "pending"

\* C23: every firing of a session makes exactly one URL-open call, and the
\* call is handed the URL that start() took from the body and validated:
\* the firing counter advances by one exactly in the steps in which one
\* worker makes a call, and the argument of that call is the session's url,
\* which no step after start() rewrites
OneOpenPerFiring ==
    [][ /\ (count' = count + 1) <=> (\E w \in Workers : MakesCall(w))
        /\ Cardinality({w \in Workers : MakesCall(w)}) <= 1
        /\ \A w \in Workers :
              MakesCall(w) => /\ call'[w].url = url
                              /\ validate_url(call'[w].url)
                              /\ call[w].result # "pending"
        /\ started > 0 => url' = url ]_vars

\* the third call of a session has returned, made with the session's URL
OneOpenPerFiringSeen ==
    /\ count = 3
    /\ call[1] = [url |-> UrlHttps, by |-> "default", result |-> "true"]
    /\ url = UrlHttps

(***************************************************************************)
(* Order of the steps at an expiry                                         *)
(***************************************************************************)

RECURSIVE SumOf(_)
\* the seconds of the countdowns in s
SumOf(s) == IF s = <<>> THEN 0 ELSE Head(s) + SumOf(Tail(s))

\* the steps of a session: a countdown's wait is added to elapsed, a firing
\* is begun, a record is written, a countdown is armed, completion is
\* declared
AddsElapsed == started > 0 /\ started' = started /\ elapsed' # elapsed
BeginsFiring == count' = count + 1
WritesRecord == started > 0 /\ started' = started /\ records' # records
ArmsCountdown == armed' # armed /\ armed' # <<>>
DeclaresCompletion == completed' /\ ~completed

\* C24: at an expiry the engine (a) adds pending_wait to elapsed, (b) makes
\* the notification, (c) writes the history record, (d) arms the next
\* countdown or completes, in this order: the wait is added when firing n,
\* its record and countdown n are behind; the firing is begun with every
\* armed countdown added to elapsed; the record of firing n is written after
\* its URL-open call has ended and before countdown n is armed or completion
\* is declared.
ExpiryOrder ==
    [][ /\ AddsElapsed =>
              /\ elapsed' = elapsed + pending_wait
              /\ Len(records) = count /\ Len(armed) = count
              /\ pending_wait = armed[count]
        /\ BeginsFiring =>
              /\ elapsed = SumOf(armed)
              /\ Len(records) = count /\ Len(armed) = count
        /\ WritesRecord =>
              /\ Len(records') = count /\ records'[count].count = count
              /\ \E w \in Workers : pc[w] = "record" /\ call[w].result # "pending"
              /\ elapsed = SumOf(armed)
              /\ Len(armed) = count - 1 /\ ~completed
        /\ (ArmsCountdown \/ DeclaresCompletion) =>
              /\ Len(records) = count /\ records[count].count = count
              /\ Len(armed) = count - 1 /\ ~completed
              /\ elapsed = SumOf(armed) ]_vars

\* the record of the third firing is written, the third countdown is armed
ExpiryOrderSeen ==
    /\ count = 3 /\ Len(records) = 3 /\ Len(armed) = 3
    /\ elapsed = armed[1] + armed[2]
    /\ pc[1] = "sleep"

(***************************************************************************)
(* Completion is decided ahead                                             *)
(***************************************************************************)

\* C25: completion is decided right after a firing, in the _schedule_next
\* call of that firing: once it is declared the worker only calls stop() and
\* leaves, no second is counted after the last firing, the elapsed seconds
\* stay below total_sec, and no URL-open call is made with elapsed equal to
\* total_sec.
CompletionAhead ==
    /\ completed =>
          /\ pc[1] \in {"cstop", "check", "dead"}
          /\ Len(records) = count /\ Len(armed) = count - 1
          /\ elapsed = SumOf(armed) /\ ticks = elapsed
          /\ elapsed < total_sec
          /\ seconds_until_next = 0 /\ pending_wait = 0
          /\ pc[1] # "cstop" => ~running
    /\ pc[1] \in {"browser", "record", "sched"} => elapsed # total_sec

\* a session completed after three firings with seconds of the total left
CompletionAheadSeen ==
    /\ completed /\ ~running /\ pc[1] = "dead"
    /\ count = 3
    /\ total_sec - elapsed = 60
    /\ ticks = elapsed

(***************************************************************************)
(* Status of a record and outcome of the URL open                          *)
(***************************************************************************)

\* C26: the record of a firing has status "success" exactly when its
\* URL-open call succeeded, and "failed" when the call raised or returned
\* False: with the record of the latest firing just written, its status is
\* "success" if the call returned True and "failed" otherwise.
StatusTellsOpenResult ==
    pc[1] = "sched" =>
        /\ records[Len(records)].count = count
        /\ records[Len(records)].status =
              IF call[1].result = "true" THEN "success" ELSE "failed"

(***************************************************************************)
(* Two start() calls on an engine that is not running                      *)
(***************************************************************************)

\* the records of immediate firings
FirstRecords == {i \in DOMAIN records : records[i].count = 1}

\* C27 as stated: of two start() calls exactly one succeeds, one worker loop
\* is created and one immediate firing results.
TwoStartsOneSucceeds ==
    /\ started <= 1
    /\ Cardinality(LiveWorkers) <= 1
    /\ Cardinality(FirstRecords) <= 1

\* C27: of two start() calls on an engine that is not running, the one that
\* takes the lock first succeeds; the other, taking the lock while the
\* session of the first is running, fails with the already-running error and
\* creates no worker and no firing, so that one worker loop and one
\* immediate firing result. The second succeeds only after the session of
\* the first has completed.
TwoStartsOneSession ==
    /\ [](started = 1 =>
            /\ Cardinality(LiveWorkers) <= 1
            /\ Cardinality(FirstRecords) <= 1
            /\ ~running => completed)
    /\ [][started = 1 /\ reply' \in {"started", "already_running"} =>
            IF running
            THEN /\ reply' = "already_running"
                 /\ UNCHANGED <<engine, store, threads, ghost>>
            ELSE /\ reply' = "started"
                 /\ completed ]_vars

\* the second call took the lock while the worker of the first was in its
\* immediate firing, and was refused
TwoStartsOneSessionSeen ==
    /\ started = 1
    /\ reply = "already_running"
    /\ pc = [w \in Workers |-> IF w = 1 THEN "open" ELSE "dead"]
    /\ count = 0
    /\ records = <<>>

(***************************************************************************)
(* Ordinals of the records                                                 *)
(***************************************************************************)

\* a record is appended in this step
AppendsRecord == Len(records') = Len(records) + 1

\* C28: every firing appends one record whose count is the firing counter
\* right after that firing, and the records of a session carry the ordinals
\* 1, 2, 3, ... without gap or duplicate, however start() and stop() fall
\* between the steps of the loop: a record is appended with the counter's
\* value, which is 1 or the successor of the ordinal of the record before it.
OrdinalsInSequence ==
    [][AppendsRecord =>
          LET r == records'[Len(records')]
          IN  /\ r.count = count
              /\ r.count >= 1
              /\ r.count > 1 =>
                    /\ records # <<>>
                    /\ records[Len(records)].count = r.count - 1 ]_vars

(***************************************************************************)
(* The expected wait of a record                                           *)
(***************************************************************************)

\* C29: the record of a firing with ordinal n >= 2 has expected_sec equal to
\* the wait that was armed after firing n - 1 and counted down, and the
\* record of the immediate firing has expected_sec null, in a first session
\* and in one that follows an earlier session of the engine.
ExpectedIsArmedWait ==
    [][AppendsRecord =>
          LET r == records'[Len(records')]
          IN  /\ r.count = 1 => r.expected_sec = None
              /\ r.count >= 2 =>
                    /\ Len(armed) >= r.count - 1
                    /\ r.expected_sec = armed[r.count - 1] ]_vars

(***************************************************************************)
(* A browser of the user's choice that is not found                        *)
(***************************************************************************)

\* the schedule as the configuration alone fixes it: the waits armed follow
\* the intervals, a firing is made at the tick that the armed waits add up to
ScheduleAsConfigured ==
    /\ \A k \in 1..Len(armed) :
          armed[k] = NextWait(k, intervals, subseq_sec) /\ SumOf(SubSeq(armed, 1, k)) < total_sec
    /\ pc[1] \in {"browser", "record", "sched"} =>
          ticks = SumOf(armed) /\ Len(armed) = count - 1
    /\ completed =>
          SumOf(armed) + NextWait(count, intervals, subseq_sec) >= total_sec

\* the status of the record just written as the outcome of the call fixes it
StatusAsOutcome ==
    pc[1] = "sched" =>
        records[Len(records)].status =
           IF call[1].result = "raised" THEN "failed" ELSE "success"

\* C30: when the browser named by chrome_path is not found, start() succeeds
\* all the same, every URL-open call of the session goes to the default
\* opener, and schedule and record statuses are those of a session without
\* chrome_path: in both, the configuration alone fixes the schedule and the
\* outcome of the call alone fixes the status.
OverrideFallsBack ==
    started > 0 /\ chrome_path \in {<<>>, ChromeMissing} =>
        /\ browser = "None"
        /\ \A w \in Workers : call[w].by \in {"none", "default"}
        /\ ScheduleAsConfigured
        /\ StatusAsOutcome

\* the second firing of a session whose browser was not found: the call
\* went to the default opener, the record says success
OverrideFallsBackSeen ==
    /\ chrome_path = ChromeMissing
    /\ reply = "none" /\ started = 1
    /\ pc[1] = "sched" /\ count = 2
    /\ call[1] = [url |-> UrlHttps, by |-> "default", result |-> "true"]
    /\ records[2].status = "success"
    /\ ticks = 60

(***************************************************************************)
(* history.json and the list in memory                                     *)
(***************************************************************************)

\* the steps that end in HistoryManager._persist: add, clear, and a note
\* put on a record
AddsRecord == \E w \in Workers : pc[w] = "record" /\ pc'[w] = "sched"
ClearsRecords == reply' = "cleared"
PutsNote == reply' = "note_ok"

\* C31: after an add, a clear or a note put on a record, when the write went
\* through, history.json holds the list in memory, record for record, and
\* load() reads that list back from it; when the write failed, the list in
\* memory is changed all the same and the caller sees no error: the worker
\* goes on to _schedule_next, the handlers answer as after a write that
\* went through.
PersistedIsMemory ==
    [][ /\ (AddsRecord \/ ClearsRecords \/ PutsNote) /\ saved' =>
              /\ history_file' = records'
              /\ HistoryLoad(history_file') = records'
        /\ AddsRecord =>
              /\ records' # <<>>
              /\ records'[Len(records')].timestamp = now
              /\ Len(records') = IF Len(records) < max_records
                                 THEN Len(records) + 1 ELSE max_records
        /\ ClearsRecords => records' = <<>>
        /\ PutsNote =>
              /\ records' # <<>>
              /\ Len(records') = Len(records)
              /\ \E i \in DOMAIN records :
                    /\ records'[i].note \in {Strip(t) : t \in NoteTexts}
                    /\ \A j \in DOMAIN records : j # i => records'[j] = records[j] ]_vars

\* a record was added to a full history while the disk refused the write:
\* the list holds it, history.json is the older one
PersistedIsMemorySeen ==
    /\ ~saved
    /\ pc[1] = "sched"
    /\ Len(records) = max_records
    /\ records[max_records].timestamp = now
    /\ Len(history_file) = max_records
    /\ history_file # records

(***************************************************************************)
(* Ticks between firings                                                   *)
(***************************************************************************)

\* the tick at which the firing before the latest countdown was made
TicksAtLastFiring == SumOf(SubSeq(armed, 1, Len(armed) - 1))

\* C32: in the web engine exactly pending_wait one-second ticks pass between
\* two firings that follow each other, and a firing is made when the ticks
\* since start() equal elapsed: none is spent beyond the countdown.  While
\* a countdown runs, the ticks since the last firing are the seconds of it
\* that are gone.
ExactTicks ==
    /\ [][BeginsFiring =>
            /\ ticks = elapsed
            /\ count >= 1 =>
                  /\ armed # <<>>
                  /\ pending_wait = armed[Len(armed)]
                  /\ ticks - TicksAtLastFiring = pending_wait ]_vars
    /\ [](pc[1] \in {"branch", "sleep", "expire"} =>
            ticks - TicksAtLastFiring = pending_wait - seconds_until_next)

\* the fourth firing of a session that was not stopped, at the tick equal
\* to elapsed, after intervals of different lengths
ExactTicksSeen ==
    /\ pc[1] = "browser" /\ count = 4 /\ running
    /\ ticks = elapsed
    /\ elapsed = intervals[1] + intervals[2] + subseq_sec
    /\ intervals[1] # intervals[2]

(***************************************************************************)
(* The desktop front-ends                                                  *)
(***************************************************************************)

\* C33: the tick handlers of the tkinter and PyQt front-ends give the
\* schedule of the web engine's loop: the k-th firing is made when the
\* one-second timer ticks since start equal elapsed at that firing.
FiresAtElapsedTicks ==
    [][count' = count + 1 => ticks' = elapsed']_vars

\* C34: while running is false no countdown timer is armed; after a
\* start() of the PyQt front-end whose first wait already completes the
\* session, no tick timer is left active.
NoTimerWhenIdle ==
    ~running => timer = "none"

(***************************************************************************)
(* The history cleared during a firing                                     *)
(***************************************************************************)

\* C35: in the web engine a worker loop is alive whenever running is true,
\* wherever a clear() of the history falls between the statements of
\* _record_history: no worker ends while running stays true.
WorkerAliveWhileRunning ==
    running => LiveWorkers # {}

(***************************************************************************)
(* The countdown fields                                                    *)
(***************************************************************************)

\* C36: in every state, however start(), stop(), status() and the loop
\* interleave, seconds_until_next lies between 0 and pending_wait; it is
\* never negative.
CountdownInRange ==
    /\ 0 <= seconds_until_next
    /\ seconds_until_next <= pending_wait

(***************************************************************************)
(* Elapsed seconds and the firing counter                                  *)
(***************************************************************************)

\* the waits consumed before the firing with ordinal n
ElapsedOf(n) ==
    IF n <= 1 THEN 0
    ELSE IF n = 2 THEN intervals[1]
    ELSE intervals[1] + intervals[2] + (n - 3) * subseq_sec

\* C37: in a session elapsed is fixed by the firing counter alone: 0 up to
\* the first firing, first_interval after the second, and first_interval +
\* second_interval + (fire_count - 3) * subsequent_interval from the third,
\* at every point between firings (all but the moment between the addition
\* of the wait and the increment of the counter).
ElapsedByCount ==
    started > 0 /\ ~(pc[1] = "open" /\ count >= 1) => elapsed = ElapsedOf(count)

\* between the fourth and the fifth firing of a session whose second
\* interval differs from the other two
ElapsedByCountSeen ==
    /\ count = 4 /\ pc[1] = "sleep"
    /\ elapsed = intervals[1] + intervals[2] + subseq_sec
    /\ intervals[1] # intervals[2]
    /\ subseq_sec # intervals[2]

(***************************************************************************)
(* The number of firings                                                   *)
(***************************************************************************)

\* the smallest of the three intervals of the configuration
MinInterval ==
    LET m == IF intervals[1] <= intervals[2] THEN intervals[1] ELSE intervals[2]
    IN  IF subseq_sec <= m THEN subseq_sec ELSE m

\* ceil(a / b) for positive b
CeilDiv(a, b) == (a + b - 1) \div b

\* C38: the firings of a session are bounded by its configuration: the
\* firing counter never exceeds ceil(total_seconds / the smallest interval),
\* and it is at least 1 once the immediate firing has been made.
FiringsBounded ==
    started > 0 =>
        /\ count <= CeilDiv(total_sec, MinInterval)
        /\ pc[1] # "open" => count >= 1

\* a session that made as many firings as the bound allows, six
FiringsBoundedSeen ==
    /\ started > 0 /\ completed
    /\ count = CeilDiv(total_sec, MinInterval)
    /\ count = 6

\* a step that is a call of ReminderEngine.stop: the /api/stop handler's, or
\* the worker's own at completion
StopCalled ==
    \/ reply' \in {"stopped", "stop_noop"}
    \/ \E w \in Workers : pc[w] = "cstop" /\ pc'[w] = "check"

\* C39: stop() changes only running, the stop signal and the status message:
\* the firing count, the elapsed and total seconds, the stored intervals and
\* URL and the history records are after stop() what they were before it.
StopChangesOnlyFlags ==
    [][StopCalled =>
          UNCHANGED <<count, elapsed, total_sec, intervals, subseq_sec, url, records>>]_vars

\* C39 witness: a session stopped in the middle of a countdown, after two
\* firings, with its counters and records standing
StopChangesOnlyFlagsSeen ==
    /\ reply = "stopped"
    /\ ~running
    /\ stop_event
    /\ status_msg = Msg("stopped", 0)
    /\ count = 2
    /\ elapsed > 0
    /\ Len(records) = 2
    /\ seconds_until_next > 0

====
